---- MODULE Spec2Model ----
(***************************************************************************)
(* Model of the radhat backend: deterministic deposit addresses            *)
(* (create2.rs), the per-user nonce counter and the deposit ledger (db.rs), *)
(* the POST /deposit handler (routes/deposit.rs) and the POST /router sweep *)
(* (routes/router.rs) over the chain gateway (rpc.rs).                      *)
(*                                                                         *)
(* Every await of a handler is one step, so handlers interleave exactly at  *)
(* the points where the tokio runtime can switch tasks.                     *)
(***************************************************************************)
EXTENDS Integers, Sequences, FiniteSets, TLC

\* ------------------------------------------------------------------ bounds
\* Number of POST /deposit requests and of POST /router sweeps in a run.
MaxReqs == 2
MaxSweeps == 2
\* Largest balance, in wei, the chain reports for an address.
MaxBalance == 1
\* Largest number of deposit rows in the ledger a sweep starts from.
MaxLedger == 2

\* Largest nonce, and number of calls, of a function called on its own.
MaxNonce == 3
MaxCalls == 2

Reqs == 1..MaxReqs
Sweeps == 1..MaxSweeps
Balances == 0..MaxBalance

\* ------------------------------------------------------- program constants
ADDRESS_LEN == 20
BYTES32_LEN == 32
NONCE_LEN == 8
CREATE2_PREFIX == 255

\* ------------------------------------------------------------ Option/Result
None == <<>>
Some(x) == <<x>>
Ok(v) == [ok |-> TRUE, val |-> v]
Err(e) == [ok |-> FALSE, err |-> e]

\* ------------------------------------------------------------------- hex
\* Strings are sequences of one-character strings.
LowerHex == <<"0","1","2","3","4","5","6","7","8","9","a","b","c","d","e","f">>

LowerChar(c) ==
  CASE c = "A" -> "a" [] c = "B" -> "b" [] c = "C" -> "c"
    [] c = "D" -> "d" [] c = "E" -> "e" [] c = "F" -> "f"
    [] c = "X" -> "x" [] c = "Z" -> "z" [] OTHER -> c

\* str::to_lowercase
to_lowercase(s) == [i \in 1..Len(s) |-> LowerChar(s[i])]

\* str::strip_prefix("0x").unwrap_or(s)
strip_prefix_0x(s) ==
  IF Len(s) >= 2 /\ s[1] = "0" /\ s[2] = "x" THEN SubSeq(s, 3, Len(s)) ELSE s

\* The value of a hex digit of either case, -1 for any other character
HexVal(c) ==
  CASE c = "0" -> 0 [] c = "1" -> 1 [] c = "2" -> 2 [] c = "3" -> 3
    [] c = "4" -> 4 [] c = "5" -> 5 [] c = "6" -> 6 [] c = "7" -> 7
    [] c = "8" -> 8 [] c = "9" -> 9
    [] c = "a" -> 10 [] c = "b" -> 11 [] c = "c" -> 12
    [] c = "d" -> 13 [] c = "e" -> 14 [] c = "f" -> 15
    [] c = "A" -> 10 [] c = "B" -> 11 [] c = "C" -> 12
    [] c = "D" -> 13 [] c = "E" -> 14 [] c = "F" -> 15
    [] OTHER -> -1
IsHexChar(c) == HexVal(c) >= 0

\* hex::decode: even length, digits of either case
hex_decode(str) ==
  CHOOSE r \in
    {IF Len(s) % 2 # 0 \/ \E i \in 1..Len(s) : ~IsHexChar(s[i])
     THEN Err("invalid hex")
     ELSE Ok([i \in 1..(Len(s) \div 2) |-> 16 * HexVal(s[2*i - 1]) + HexVal(s[2*i])])
       : s \in {str}} : TRUE

\* hex::encode: lowercase digits
hex_encode(b) ==
  [i \in 1..(2 * Len(b)) |->
     IF i % 2 = 1 THEN LowerHex[(b[(i + 1) \div 2] \div 16) + 1]
                  ELSE LowerHex[(b[i \div 2] % 16) + 1]]

\* Mutant of format_address: the 0x prefix left out.
format_address_NoPrefix(addr) == hex_encode(addr)

\* create2.rs format_address / format_bytes32
format_address(addr) == <<"0", "x">> \o hex_encode(addr)
format_bytes32(bytes) == <<"0", "x">> \o hex_encode(bytes)

\* Mutant of parse_address: the length of the decoded bytes not checked.
parse_address_AnyLength(s) ==
  LET d == hex_decode(strip_prefix_0x(s))
  IN  IF ~d.ok THEN Err("invalid hex") ELSE Ok(d.val)

\* create2.rs parse_address
parse_address(s) ==
  LET d == hex_decode(strip_prefix_0x(s))
  IN  IF ~d.ok THEN Err("invalid hex")
      ELSE IF Len(d.val) # ADDRESS_LEN THEN Err("invalid address length")
      ELSE Ok(d.val)

\* config.rs parse_bytes32
parse_bytes32(s) ==
  LET d == hex_decode(strip_prefix_0x(s))
  IN  IF ~d.ok THEN Err("InvalidBytes32")
      ELSE IF Len(d.val) # BYTES32_LEN THEN Err("InvalidBytes32")
      ELSE Ok(d.val)

\* rpc.rs parse_salt
parse_salt(salt_hex) ==
  LET d == hex_decode(strip_prefix_0x(salt_hex))
  IN  IF ~d.ok THEN Err("Invalid salt hex")
      ELSE IF Len(d.val) # BYTES32_LEN THEN Err("Salt must be 32 bytes")
      ELSE Ok(d.val)

Rep(x, n) == [i \in 1..n |-> x]
RepStr(a, b, n) == [i \in 1..(2 * n) |-> IF i % 2 = 1 THEN a ELSE b]

\* ------------------------------------------------------------------ hash
\* alloy_primitives::keccak256 is a library function; it is modelled by a
\* 32-byte stand-in: a polynomial residue of the input bytes modulo a prime,
\* squeezed into 32 bytes whose last two hold the residue, so that two
\* inputs collide exactly when their residues do.  No property below
\* relies on the stand-in being free of collisions.
HashPrime == 32749
HashMul == 131

RECURSIVE HashPow(_)
HashPow(k) ==
  IF k = 0 THEN 1
  ELSE LET h == HashPow(k \div 2)
       IN  (((h * h) % HashPrime) * (IF k % 2 = 1 THEN HashMul ELSE 1)) % HashPrime

RECURSIVE Absorb(_, _, _)
Absorb(input, lo, hi) ==
  IF lo > hi THEN 0
  ELSE IF lo = hi THEN (input[lo] + 1) % HashPrime
  ELSE LET mid == (lo + hi) \div 2
       IN  (Absorb(input, lo, mid) * HashPow(hi - mid) + Absorb(input, mid + 1, hi))
             % HashPrime

Squeeze(h) ==
  [i \in 1..BYTES32_LEN |->
     IF i = BYTES32_LEN THEN h % 256
     ELSE IF i = BYTES32_LEN - 1 THEN h \div 256
     ELSE (h + 7 * i) % 256]

keccak256(input) ==
  LET bytes == CHOOSE b \in {input} : TRUE
  IN  Squeeze((7 * HashPow(Len(bytes)) + Absorb(bytes, 1, Len(bytes))) % HashPrime)

\* u64::to_be_bytes; the model's nonces stay below 2^24
to_be_bytes(nonce) ==
  [i \in 1..NONCE_LEN |->
     IF i = NONCE_LEN THEN nonce % 256
     ELSE IF i = NONCE_LEN - 1 THEN (nonce \div 256) % 256
     ELSE IF i = NONCE_LEN - 2 THEN (nonce \div 65536) % 256
     ELSE 0]

\* ------------------------------------------------------------ create2.rs
derive_salt(user_salt, caller) == keccak256(user_salt \o caller)

compute_create2_address(deployer, salt, init_code_hash) ==
  LET hash == keccak256(<<CREATE2_PREFIX>> \o deployer \o salt \o init_code_hash)
  IN  SubSeq(hash, BYTES32_LEN - ADDRESS_LEN + 1, BYTES32_LEN)

generate_user_salt(user_address, nonce) ==
  keccak256(user_address \o to_be_bytes(nonce))

\* Mutant of compute_deposit_address: the derived salt returned for storage.
compute_deposit_address_DerivedSalt(deployer, init_code_hash, user_address, nonce) ==
  LET user_salt == generate_user_salt(user_address, nonce)
      derived_salt == derive_salt(user_salt, user_address)
      address == compute_create2_address(deployer, derived_salt, init_code_hash)
  IN  <<address, derived_salt>>

compute_deposit_address(deployer, init_code_hash, user_address, nonce) ==
  LET user_salt == generate_user_salt(user_address, nonce)
      derived_salt == derive_salt(user_salt, user_address)
      address == compute_create2_address(deployer, derived_salt, init_code_hash)
  IN  <<address, user_salt>>

\* ---------------------------------------------------------------- config
\* The environment the process was started with (config.rs from_env).
Config ==
  [deployer_address |-> <<"0", "x">> \o RepStr("a", "b", ADDRESS_LEN),
   init_code_hash   |-> <<"0", "x">> \o RepStr("e", "f", BYTES32_LEN)]

deployer_bytes == parse_address(Config.deployer_address)
init_code_hash_bytes == parse_bytes32(Config.init_code_hash)

\* ---------------------------------------------------------------- inputs
\* The k-th user, in the canonical form the API returns (0x, lower case).
UserDigits == <<"4", "7", "9", "1", "2", "3", "5", "6", "8">>
UserOf(k) == <<"0", "x">> \o RepStr(UserDigits[k], "a", ADDRESS_LEN)

\* The `user` strings a POST /deposit request may carry: the first user in
\* canonical form, in upper case and without the 0x prefix, the second
\* user, and two malformed strings (a non-hex digit, a wrong length).
UserInputs ==
  { UserOf(1),
    <<"0", "x">> \o RepStr(UserDigits[1], "A", ADDRESS_LEN),
    RepStr(UserDigits[1], "a", ADDRESS_LEN),
    UserOf(2),
    <<"0", "x">> \o RepStr("z", "z", ADDRESS_LEN),
    <<"0", "x">> \o RepStr(UserDigits[1], "a", ADDRESS_LEN - 1) }

\* sqlx::Error as the handlers see it
ErrIo == "Io"
ErrUnique == "UniqueViolation"

\* ------------------------------------------------------------------ state
VARIABLES
  user_nonces,   \* table user_nonces: user_address -> next_nonce
  deposits,      \* table deposits, in id order
  db_writer,     \* the request whose open transaction holds SQLite's write lock, or 0
  req,           \* POST /deposit requests: position and locals of each handler
  sweep,         \* POST /router sweeps: position and locals of each handler
  rpc_config_ok, \* whether RpcClient::from_config accepts the configuration
  gateway_calls, \* history: the deploy_multiple and transfer_funds calls of each sweep
  transferred,   \* history: proxies for which some transfer_funds call succeeded
  pure_call      \* a function called on its own: its name, arguments and results

vars == <<user_nonces, deposits, db_writer, req, sweep, rpc_config_ok,
          gateway_calls, transferred, pure_call>>
dbVars == <<user_nonces, deposits, db_writer>>
sweepVars == <<sweep, rpc_config_ok, gateway_calls, transferred, pure_call>>

IdleReq ==
  [pc |-> "idle", user |-> <<>>, user_address_str |-> <<>>, row |-> None,
   nonce |-> None, deposit_address |-> <<>>, salt |-> <<>>, result |-> "none"]

\* models.rs RouteResponse as route_deposits builds it
EmptyResponse ==
  [checked |-> 0, funded |-> 0, deployed |-> 0, routed |-> 0,
   deploy_tx_hash |-> None, route_tx_hashes |-> <<>>, errors |-> <<>>]

IdleSweep ==
  [pc |-> "idle", deposits |-> <<>>, balances |-> <<>>, i |-> 0,
   newly_funded |-> <<>>, salts_and_deposits |-> <<>>, balance |-> 0,
   response |-> EmptyResponse, result |-> "none"]

Statuses == {"pending", "funded", "deployed", "failed", "routed"}

\* No function is being called on its own
NoCall == [fn |-> "none", args |-> <<>>, results |-> <<>>]

Init ==
  /\ user_nonces = <<>>
  /\ deposits = <<>>
  /\ db_writer = 0
  /\ req = [r \in Reqs |-> IdleReq]
  /\ sweep = [s \in Sweeps |-> IdleSweep]
  /\ rpc_config_ok \in BOOLEAN
  /\ gateway_calls = [s \in Sweeps |-> <<>>]
  /\ transferred = {}
  /\ pure_call = NoCall

\* ------------------------------------------------------------------ db.rs
HasRow(tbl, key) == key \in DOMAIN tbl

\* SELECT next_nonce FROM user_nonces WHERE user_address = ? FOR UPDATE,
\* fetch_optional(..).await.unwrap_or(None).  The pool is a SqlitePool and
\* SQLite's grammar has no FOR UPDATE clause: the statement is rejected when
\* it is prepared, fetch_optional returns Err and unwrap_or turns it to None.
SelectNextNonceForUpdate(tbl, key) == None

\* Mutant of InsertNonceRow: INSERT OR REPLACE, the primary key not enforced.
InsertNonceRow_Replace(tbl, key) ==
  Ok([k \in DOMAIN tbl \cup {key} |-> IF k = key THEN 1 ELSE tbl[k]])

\* Mutant of InsertNonceRow: INSERT OR IGNORE, an existing row kept and the
\* statement reported as done.
InsertNonceRow_Ignore(tbl, key) ==
  IF HasRow(tbl, key) THEN Ok(tbl)
  ELSE Ok([k \in DOMAIN tbl \cup {key} |-> IF k = key THEN 1 ELSE tbl[k]])

\* INSERT INTO user_nonces (user_address, next_nonce) VALUES (?, 1);
\* user_address is the PRIMARY KEY.
InsertNonceRow(tbl, key) ==
  IF HasRow(tbl, key) THEN Err(ErrUnique)
  ELSE Ok([k \in DOMAIN tbl \cup {key} |-> IF k = key THEN 1 ELSE tbl[k]])

\* UPDATE user_nonces SET next_nonce = next_nonce + 1 WHERE user_address = ?
IncrementNonceRow(tbl, key) ==
  [k \in DOMAIN tbl |-> IF k = key THEN tbl[k] + 1 ELSE tbl[k]]

\* Mutant of DepositAddressTaken: the column declared without UNIQUE.
DepositAddressTaken_NoConstraint(rows, addr) == FALSE

\* deposit_address TEXT NOT NULL UNIQUE
DepositAddressTaken(rows, addr) ==
  \E i \in 1..Len(rows) : rows[i].deposit_address = addr

\* Mutant of InsertDepositRow: success reported, the row not stored.
InsertDepositRow_Dropped(rows, user_address, salt, deposit_address, nonce) ==
  IF DepositAddressTaken(rows, deposit_address) THEN Err(ErrUnique)
  ELSE Ok(rows)

\* INSERT INTO deposits (...) VALUES (?, ?, ?, ?, 'pending')
InsertDepositRow(rows, user_address, salt, deposit_address, nonce) ==
  IF DepositAddressTaken(rows, deposit_address) THEN Err(ErrUnique)
  ELSE Ok(Append(rows,
            [id |-> Len(rows) + 1, user_address |-> user_address, salt |-> salt,
             deposit_address |-> deposit_address, nonce |-> nonce,
             status |-> "pending"]))

\* ------------------------------------------------- routes/deposit.rs
Finish(r, res) == [req EXCEPT ![r].pc = "done", ![r].result = res]

\* create_deposit, up to the call of get_and_increment_nonce: lower-case the
\* user string, parse it, read the deployer and the init code hash.
ReceiveDeposit(r) ==
  /\ req[r].pc = "idle"
  /\ \E user \in UserInputs :
       LET user_address_str == to_lowercase(user)
           parsed == parse_address(user_address_str)
       IN  req' = IF ~parsed.ok
                  THEN [req EXCEPT ![r].pc = "done", ![r].user = user,
                                   ![r].result = "InvalidAddress"]
                  ELSE IF ~deployer_bytes.ok \/ ~init_code_hash_bytes.ok
                  THEN [req EXCEPT ![r].pc = "done", ![r].user = user,
                                   ![r].result = "Config"]
                  ELSE [req EXCEPT ![r].pc = "begin", ![r].user = user,
                                   ![r].user_address_str = user_address_str]
  /\ UNCHANGED <<user_nonces, deposits, db_writer, sweepVars>>

\* get_and_increment_nonce: pool.begin().await?
NonceBegin(r) ==
  /\ req[r].pc = "begin"
  /\ \E ok \in BOOLEAN :
       req' = IF ok THEN [req EXCEPT ![r].pc = "select"] ELSE Finish(r, ErrIo)
  /\ UNCHANGED <<user_nonces, deposits, db_writer, sweepVars>>

\* get_and_increment_nonce: the SELECT, its error swallowed
NonceSelect(r) ==
  /\ req[r].pc = "select"
  /\ req' = [req EXCEPT ![r].pc = "write",
                        ![r].row = SelectNextNonceForUpdate(user_nonces,
                                                            req[r].user_address_str)]
  /\ UNCHANGED <<user_nonces, deposits, db_writer, sweepVars>>

\* get_and_increment_nonce: match row { Some => UPDATE, None => INSERT }.
\* The statement takes SQLite's write lock, which the transaction keeps
\* until it commits or is dropped; it waits while another writer holds it.
NonceWrite(r) ==
  /\ req[r].pc = "write"
  /\ db_writer = 0
  /\ \E ok \in BOOLEAN :
       LET key == req[r].user_address_str
           ins == InsertNonceRow(user_nonces, key)
       IN  IF ~ok
           THEN /\ req' = Finish(r, ErrIo)
                /\ UNCHANGED db_writer
           ELSE IF req[r].row # None
           THEN /\ req' = [req EXCEPT ![r].pc = "commit"]
                /\ db_writer' = r
           ELSE IF ~ins.ok
           THEN /\ req' = Finish(r, ins.err)
                /\ UNCHANGED db_writer
           ELSE /\ req' = [req EXCEPT ![r].pc = "commit"]
                /\ db_writer' = r
  /\ UNCHANGED <<user_nonces, deposits, sweepVars>>

\* get_and_increment_nonce: tx.commit().await?; Ok(nonce).  A failed commit
\* rolls back.  The nonce returned is the row read (n) or 0.
NonceCommit(r) ==
  /\ req[r].pc = "commit"
  /\ db_writer = r
  /\ db_writer' = 0
  /\ \E ok \in BOOLEAN :
       LET key == req[r].user_address_str
       IN  IF ~ok
           THEN /\ req' = Finish(r, ErrIo)
                /\ UNCHANGED user_nonces
           ELSE /\ req' = [req EXCEPT ![r].pc = "insert",
                                      ![r].nonce = IF req[r].row # None
                                                   THEN Some(req[r].row[1])
                                                   ELSE Some(0)]
                /\ user_nonces' = IF req[r].row # None
                                  THEN IncrementNonceRow(user_nonces, key)
                                  ELSE InsertNonceRow(user_nonces, key).val
  /\ UNCHANGED <<deposits, sweepVars>>

\* create_deposit after the nonce: compute the address, insert the row,
\* answer.  insert_deposit is one autocommit statement.
InsertDeposit(r) ==
  /\ req[r].pc = "insert"
  /\ db_writer = 0
  /\ \E ok \in BOOLEAN :
       LET user_bytes == parse_address(req[r].user_address_str).val
           computed == compute_deposit_address(deployer_bytes.val,
                          init_code_hash_bytes.val, user_bytes, req[r].nonce[1])
           deposit_address == format_address(computed[1])
           salt == format_bytes32(computed[2])
           ins == InsertDepositRow(deposits, req[r].user_address_str, salt,
                                   deposit_address, req[r].nonce[1])
       IN  IF ~ok
           THEN /\ req' = Finish(r, ErrIo)
                /\ UNCHANGED deposits
           ELSE IF ~ins.ok
           THEN /\ req' = Finish(r, ins.err)
                /\ UNCHANGED deposits
           ELSE /\ req' = [req EXCEPT ![r].pc = "done", ![r].result = "ok",
                                      ![r].deposit_address = deposit_address,
                                      ![r].salt = salt]
                /\ deposits' = ins.val
  /\ UNCHANGED <<user_nonces, db_writer, sweepVars>>

\* ------------------------------------------------------ db.rs (ledger)
\* Mutant of get_deposits_by_statuses: the WHERE clause left out.
get_deposits_by_statuses_All(rows, statuses) == rows

\* SELECT ... FROM deposits WHERE status IN (..) ORDER BY created_at ASC
get_deposits_by_statuses(rows, statuses) ==
  SelectSeq(rows, LAMBDA d : d.status \in statuses)

\* Mutant of update_deposit_status: only a move forward along pending ->
\* funded -> deployed -> routed is written.
update_deposit_status_Guarded(rows, deposit_address, status) ==
  LET Rank(st) == CASE st = "pending" -> 0 [] st = "funded" -> 1
                    [] st = "deployed" -> 2 [] st = "routed" -> 3 [] OTHER -> 4
  IN  [k \in 1..Len(rows) |->
         IF rows[k].deposit_address = deposit_address /\ Rank(status) > Rank(rows[k].status)
         THEN [rows[k] EXCEPT !.status = status]
         ELSE rows[k]]

\* UPDATE deposits SET status = ?, updated_at = datetime('now')
\* WHERE deposit_address = ?
update_deposit_status(rows, deposit_address, status) ==
  [k \in 1..Len(rows) |->
     IF rows[k].deposit_address = deposit_address
     THEN [rows[k] EXCEPT !.status = status]
     ELSE rows[k]]

\* ----------------------------------------------------------------- rpc.rs
\* rpc.rs parse_address (alloy Address::from_str)
rpc_parse_address(addr_hex) == parse_address(addr_hex)

\* RpcClient::get_balance: a transport error or the balance
GetBalanceOutcomes == {Err("Transport")} \cup {Ok(b) : b \in Balances}

\* RpcClient::deploy_multiple: no salts, a failed submission, a failed or
\* reverted receipt, or the transaction hash
DeployMultipleOutcomes(salts) ==
  IF salts = <<>> THEN {Err("ContractCall")}
  ELSE {Err("ContractCall"), Err("TransactionFailed"), Ok("deploy_tx")}

\* RpcClient::transfer_funds
TransferFundsOutcomes == {Err("ContractCall"), Err("TransactionFailed"), Ok("transfer_tx")}

\* ------------------------------------------------------- routes/router.rs
PushError(sw, e) == [sw EXCEPT !.response.errors = Append(@, e)]

\* return Ok(Json(response))
Return(sw) == [sw EXCEPT !.pc = "done", !.result = "Ok"]

\* Mutant of FetchFailed: the ledger error propagated with `?`.
FetchFailed_Propagated(sw) == [sw EXCEPT !.pc = "done", !.result = "Err"]

\* Lines 51-55: the ledger read failed
FetchFailed(sw) == Return(PushError(sw, <<"Database error">>))

\* Mutant of BalanceFailed: the failed query dropped without a report.
BalanceFailed_Silent(sw, deposit_address) == sw

\* Lines 86-96: the balance query of a pending deposit failed
BalanceFailed(sw, deposit_address) ==
  PushError(sw, <<"Balance check failed", deposit_address>>)

\* Mutant of PromoteFailed: the deposit counted as funded all the same.
PromoteFailed_Included(sw, addr) ==
  [PushError(sw, <<"DB update failed", addr>>) EXCEPT !.newly_funded = Append(@, addr)]

\* Lines 109-111: the update to 'funded' failed
PromoteFailed(sw, addr) == PushError(sw, <<"DB update failed", addr>>)

\* One entry of the record of a sweep's gateway calls
GatewayCall(op, salts, proxy, ok, balance, after_ok) ==
  [op |-> op, salts |-> salts, proxy |-> proxy, ok |-> ok, balance |-> balance,
   after_ok |-> after_ok]

\* rpc.get_balance(addr) called, with its outcome
BalanceCall(addr, out) ==
  GatewayCall("get_balance", <<>>, addr, out.ok, IF out.ok THEN out.val ELSE 0, FALSE)

pending_deposits(sw) == SelectSeq(sw.deposits, LAMBDA d : d.status = "pending")
funded_deposits(sw) == SelectSeq(sw.deposits, LAMBDA d : d.status = "funded")

\* Mutant of CandidateStatuses: deployed deposits fetched as well.
CandidateStatuses_WithDeployed == {"pending", "funded", "deployed"}

\* The statuses route_deposits asks the ledger for
CandidateStatuses == {"pending", "funded"}

\* Mutant of ParseSalts: one undecodable salt empties the batch.
ParseSalts_AllOrNothing(sw, deposits_to_deploy) ==
  LET good == SelectSeq(deposits_to_deploy, LAMBDA d : parse_salt(d.salt).ok)
      bad  == SelectSeq(deposits_to_deploy, LAMBDA d : ~parse_salt(d.salt).ok)
  IN  [sw EXCEPT
         !.salts_and_deposits =
            IF bad # <<>> THEN <<>>
            ELSE [k \in 1..Len(good) |->
                    <<parse_salt(good[k].salt).val, good[k].deposit_address, good[k].salt>>],
         !.response.errors =
            @ \o [k \in 1..Len(bad) |-> <<"Invalid salt", bad[k].deposit_address>>]]

\* for deposit in &deposits_to_deploy { match parse_salt(&deposit.salt) .. }
ParseSalts(sw, deposits_to_deploy) ==
  LET good == SelectSeq(deposits_to_deploy, LAMBDA d : parse_salt(d.salt).ok)
      bad  == SelectSeq(deposits_to_deploy, LAMBDA d : ~parse_salt(d.salt).ok)
  IN  [sw EXCEPT
         !.salts_and_deposits =
            [k \in 1..Len(good) |->
               <<parse_salt(good[k].salt).val, good[k].deposit_address, good[k].salt>>],
         !.response.errors =
            @ \o [k \in 1..Len(bad) |-> <<"Invalid salt", bad[k].deposit_address>>]]

\* pending_deposits.iter().find(|d| &d.deposit_address == addr)
FindPending(pend, addr) ==
  LET c == {k \in 1..Len(pend) : pend[k].deposit_address = addr}
  IN  IF c = {} THEN None ELSE Some(pend[CHOOSE k \in c : \A j \in c : k <= j])

\* Lines 187-224: the next deposit of the batch to transfer from
EnterTransfer(sw, i) ==
  IF i > Len(sw.salts_and_deposits) THEN Return(sw)
  ELSE [sw EXCEPT !.pc = "transfer", !.i = i]

\* Mutant of TransferFailed: the first failed transfer ends the loop.
TransferFailed_Abort(sw, addr) == Return(PushError(sw, <<"Transfer failed", addr>>))

\* Mutant of TransferFailed: the failed transfer counted as routed.
TransferFailed_Counted(sw, addr) ==
  EnterTransfer([PushError(sw, <<"Transfer failed", addr>>) EXCEPT !.response.routed = @ + 1],
                sw.i + 1)

\* Lines 214-217: transfer_funds failed; the loop goes on with the next
\* deposit
TransferFailed(sw, addr) ==
  EnterTransfer(PushError(sw, <<"Transfer failed", addr>>), sw.i + 1)

\* Mutant of EnterDeploy: the deploy step left out, the transfers started
\* right away.
EnterDeploy_Skipped(sw) == EnterTransfer(sw, 1)

\* Lines 158-162: with the salts parsed, the handler calls deploy_multiple
EnterDeploy(sw) == [sw EXCEPT !.pc = "deploy"]

\* Lines 118-159: count the funded deposits, collect the deploy batch and
\* parse its salts; no await in between.
Collect(sw) ==
  LET pend == pending_deposits(sw)
      fund == funded_deposits(sw)
      found == [k \in 1..Len(sw.newly_funded) |-> FindPending(pend, sw.newly_funded[k])]
      newly == SelectSeq(found, LAMBDA o : o # None)
      deposits_to_deploy == fund \o [k \in 1..Len(newly) |-> newly[k][1]]
      counted == [sw EXCEPT !.response.funded = Len(sw.newly_funded) + Len(fund)]
      parsed == ParseSalts(counted, deposits_to_deploy)
  IN  IF deposits_to_deploy = <<>> THEN Return(counted)
      ELSE IF parsed.salts_and_deposits = <<>> THEN Return(parsed)
      ELSE EnterDeploy(parsed)

\* Mutant of IsFunded: a zero balance promoted as well.
IsFunded_OrZero(balance) == balance >= 0

\* if *balance > U256::ZERO
IsFunded(balance) == balance > 0

\* Lines 107-116: the next entry of balances whose status is to be updated
EnterPromote(sw, i) ==
  LET c == {k \in i..Len(sw.balances) : IsFunded(sw.balances[k][2])}
  IN  IF c = {} THEN Collect(sw)
      ELSE [sw EXCEPT !.pc = "promote", !.i = CHOOSE k \in c : \A j \in c : k <= j]

\* Lines 72-103: the next pending deposit whose balance is to be queried
EnterBalance(sw, i) ==
  IF i > Len(pending_deposits(sw)) THEN EnterPromote(sw, 1)
  ELSE [sw EXCEPT !.pc = "balance", !.i = i]

\* Lines 28-68: build the response, initialise the RPC client, fetch the
\* pending and funded deposits.
SweepFetch(s) ==
  /\ sweep[s].pc = "idle"
  /\ \E ok \in BOOLEAN :
       LET sw == sweep[s]
           deps == get_deposits_by_statuses(deposits, CandidateStatuses)
       IN  sweep' = [sweep EXCEPT ![s] =
             IF ~rpc_config_ok
             THEN Return(PushError(sw, <<"RPC initialization failed">>))
             ELSE IF ~ok
             THEN FetchFailed(sw)
             ELSE IF deps = <<>>
             THEN Return(sw)
             ELSE EnterBalance([sw EXCEPT !.deposits = deps,
                                          !.response.checked = Len(deps)], 1)]
  /\ UNCHANGED <<dbVars, req, pure_call, rpc_config_ok, gateway_calls, transferred>>

\* Lines 72-103: one balance query of the balance-check loop
SweepBalance(s) ==
  /\ sweep[s].pc = "balance"
  /\ \E out \in GetBalanceOutcomes :
       LET sw == sweep[s]
           deposit == pending_deposits(sw)[sw.i]
           addr == rpc_parse_address(deposit.deposit_address)
           after ==
             IF ~addr.ok THEN sw
             ELSE IF out.ok
             THEN [sw EXCEPT !.balances = Append(@, <<deposit.deposit_address, out.val>>)]
             ELSE BalanceFailed(sw, deposit.deposit_address)
       IN  /\ sweep' = [sweep EXCEPT ![s] = EnterBalance(after, sw.i + 1)]
           /\ gateway_calls' =
                IF ~addr.ok THEN gateway_calls
                ELSE [gateway_calls EXCEPT ![s] =
                        Append(@, BalanceCall(deposit.deposit_address, out))]
  /\ UNCHANGED <<dbVars, req, pure_call, rpc_config_ok, transferred>>

\* Lines 107-116: one update of a deposit with balance > 0 to 'funded'
SweepPromote(s) ==
  /\ sweep[s].pc = "promote"
  /\ \E ok \in BOOLEAN :
       LET sw == sweep[s]
           addr == sw.balances[sw.i][1]
       IN  /\ ok => db_writer = 0
           /\ deposits' = IF ok THEN update_deposit_status(deposits, addr, "funded")
                          ELSE deposits
           /\ sweep' = [sweep EXCEPT ![s] =
                EnterPromote(
                  IF ok THEN [sw EXCEPT !.newly_funded = Append(@, addr)]
                  ELSE PromoteFailed(sw, addr),
                  sw.i + 1)]
  /\ UNCHANGED <<user_nonces, db_writer, req, pure_call, rpc_config_ok, gateway_calls, transferred>>

\* Lines 162-184: the deploy_multiple call and its result
SweepDeploy(s) ==
  /\ sweep[s].pc = "deploy"
  /\ LET sw == sweep[s]
         salts == [k \in 1..Len(sw.salts_and_deposits) |-> sw.salts_and_deposits[k][1]]
     IN  \E out \in DeployMultipleOutcomes(salts) :
           /\ gateway_calls' = [gateway_calls EXCEPT ![s] =
                Append(@, GatewayCall("deploy_multiple", salts, <<>>, out.ok, 0, FALSE))]
           /\ sweep' = [sweep EXCEPT ![s] =
                IF out.ok
                THEN [sw EXCEPT !.response.deploy_tx_hash = Some(out.val),
                                !.response.deployed = Len(sw.salts_and_deposits),
                                !.pc = "mark_deployed", !.i = 1]
                ELSE [PushError(sw, <<"Deploy failed", out.err>>) EXCEPT
                                !.pc = "mark_failed", !.i = 1]]
  /\ UNCHANGED <<dbVars, req, pure_call, rpc_config_ok, transferred>>

\* Lines 169-173: one update of a batch deposit to 'deployed'; an error is
\* logged and the loop goes on.
SweepMarkDeployed(s) ==
  /\ sweep[s].pc = "mark_deployed"
  /\ \E ok \in BOOLEAN :
       LET sw == sweep[s]
           addr == sw.salts_and_deposits[sw.i][2]
       IN  /\ ok => db_writer = 0
           /\ deposits' = IF ok THEN update_deposit_status(deposits, addr, "deployed")
                          ELSE deposits
           /\ sweep' = [sweep EXCEPT ![s] =
                IF sw.i < Len(sw.salts_and_deposits)
                THEN [sw EXCEPT !.i = sw.i + 1]
                ELSE EnterTransfer(sw, 1)]
  /\ UNCHANGED <<user_nonces, db_writer, req, pure_call, rpc_config_ok, gateway_calls, transferred>>

\* Lines 179-182: one update of a batch deposit to 'failed', its result
\* dropped; after the last one the handler returns.
SweepMarkFailed(s) ==
  /\ sweep[s].pc = "mark_failed"
  /\ \E ok \in BOOLEAN :
       LET sw == sweep[s]
           addr == sw.salts_and_deposits[sw.i][2]
       IN  /\ ok => db_writer = 0
           /\ deposits' = IF ok THEN update_deposit_status(deposits, addr, "failed")
                          ELSE deposits
           /\ sweep' = [sweep EXCEPT ![s] =
                IF sw.i < Len(sw.salts_and_deposits)
                THEN [sw EXCEPT !.i = sw.i + 1]
                ELSE Return(sw)]
  /\ UNCHANGED <<user_nonces, db_writer, req, pure_call, rpc_config_ok, gateway_calls, transferred>>

\* Mutant of SkipTransfer: no proxy is skipped.
SkipTransfer_Never(balance) == FALSE

\* if balance == U256::ZERO { .. continue; }
SkipTransfer(balance) == balance = 0

\* Lines 188-196: the balance of the proxy before its transfer
SweepTransferBalance(s) ==
  /\ sweep[s].pc = "transfer"
  /\ \E out \in GetBalanceOutcomes :
       LET sw == sweep[s]
           addr == sw.salts_and_deposits[sw.i][2]
           proxy_addr == rpc_parse_address(addr)
           balance == IF out.ok THEN out.val ELSE 0
       IN  /\ sweep' = [sweep EXCEPT ![s] =
                IF ~proxy_addr.ok \/ SkipTransfer(balance)
                THEN EnterTransfer(sw, sw.i + 1)
                ELSE [sw EXCEPT !.pc = "transfer_funds", !.balance = balance]]
           /\ gateway_calls' =
                IF ~proxy_addr.ok THEN gateway_calls
                ELSE [gateway_calls EXCEPT ![s] = Append(@, BalanceCall(addr, out))]
  /\ UNCHANGED <<dbVars, req, pure_call, rpc_config_ok, transferred>>

\* Lines 198-218: the transfer_funds call and its result
SweepTransferFunds(s) ==
  /\ sweep[s].pc = "transfer_funds"
  /\ \E out \in TransferFundsOutcomes :
       LET sw == sweep[s]
           addr == sw.salts_and_deposits[sw.i][2]
       IN  /\ gateway_calls' = [gateway_calls EXCEPT ![s] =
                Append(@, GatewayCall("transfer_funds", <<>>, addr, out.ok, sw.balance,
                                      addr \in transferred))]
           /\ transferred' = IF out.ok THEN transferred \cup {addr} ELSE transferred
           /\ sweep' = [sweep EXCEPT ![s] =
                IF out.ok
                THEN [sw EXCEPT
                        !.response.route_tx_hashes =
                           Append(@, [proxy_address |-> addr, tx_hash |-> out.val,
                                      amount_wei |-> sw.balance]),
                        !.response.routed = @ + 1,
                        !.pc = "mark_routed"]
                ELSE TransferFailed(sw, addr)]
  /\ UNCHANGED <<dbVars, req, pure_call, rpc_config_ok>>

\* Lines 207-210: the update of a transferred deposit to 'routed'; an error
\* is logged and the loop goes on.
SweepMarkRouted(s) ==
  /\ sweep[s].pc = "mark_routed"
  /\ \E ok \in BOOLEAN :
       LET sw == sweep[s]
           addr == sw.salts_and_deposits[sw.i][2]
       IN  /\ ok => db_writer = 0
           /\ deposits' = IF ok THEN update_deposit_status(deposits, addr, "routed")
                          ELSE deposits
           /\ sweep' = [sweep EXCEPT ![s] = EnterTransfer(sw, sw.i + 1)]
  /\ UNCHANGED <<user_nonces, db_writer, req, pure_call, rpc_config_ok, gateway_calls, transferred>>

NextDeposit ==
  \/ \E r \in Reqs : ReceiveDeposit(r)
  \/ \E r \in Reqs : NonceBegin(r)
  \/ \E r \in Reqs : NonceSelect(r)
  \/ \E r \in Reqs : NonceWrite(r)
  \/ \E r \in Reqs : NonceCommit(r)
  \/ \E r \in Reqs : InsertDeposit(r)

NextSweep ==
  \/ \E s \in Sweeps : SweepFetch(s)
  \/ \E s \in Sweeps : SweepBalance(s)
  \/ \E s \in Sweeps : SweepPromote(s)
  \/ \E s \in Sweeps : SweepDeploy(s)
  \/ \E s \in Sweeps : SweepMarkDeployed(s)
  \/ \E s \in Sweeps : SweepMarkFailed(s)
  \/ \E s \in Sweeps : SweepTransferBalance(s)
  \/ \E s \in Sweeps : SweepTransferFunds(s)
  \/ \E s \in Sweeps : SweepMarkRouted(s)

Next == NextDeposit \/ NextSweep

\* The whole service from an empty database.
Spec == Init /\ [][Next]_vars

\* The POST /deposit handlers alone, from an empty database.
SpecDeposit == Init /\ [][NextDeposit]_vars

\* The row create_deposit stores for the first nonce of the k-th user.
LedgerRow(k, status) ==
  LET computed == compute_deposit_address(deployer_bytes.val, init_code_hash_bytes.val,
                                          parse_address(UserOf(k)).val, 0)
  IN  [id |-> k, user_address |-> UserOf(k), salt |-> format_bytes32(computed[2]),
       deposit_address |-> format_address(computed[1]), nonce |-> 0,
       status |-> status]

\* A database earlier requests and sweeps have left: the first deposit of
\* up to MaxLedger users, each in any status.
InitLedger ==
  /\ \E n \in 0..MaxLedger : \E st \in [1..n -> Statuses] :
       /\ deposits = [k \in 1..n |-> LedgerRow(k, st[k])]
       /\ user_nonces = [key \in {UserOf(k) : k \in 1..n} |-> 1]
  /\ db_writer = 0
  /\ req = [r \in Reqs |-> IdleReq]
  /\ sweep = [s \in Sweeps |-> IdleSweep]
  /\ rpc_config_ok \in BOOLEAN
  /\ gateway_calls = [s \in Sweeps |-> <<>>]
  /\ transferred = {}
  /\ pure_call = NoCall

\* The POST /router sweeps alone, over such a database.
SpecSweep == InitLedger /\ [][NextSweep]_vars

\* The steps of a sweep after its first: every await of route_deposits
\* completes, the ledger and the gateway client returning a result or an
\* error, and the runtime polls the handler again.
SweepRun(s) ==
  \/ SweepBalance(s)
  \/ SweepPromote(s)
  \/ SweepDeploy(s)
  \/ SweepMarkDeployed(s)
  \/ SweepMarkFailed(s)
  \/ SweepTransferBalance(s)
  \/ SweepTransferFunds(s)
  \/ SweepMarkRouted(s)

\* One sweep on its own: a sweep waits for no other handler, so whether it
\* returns does not depend on the sweeps running beside it.
SoloSweep == CHOOSE s \in Sweeps : \A t \in Sweeps : s <= t

NextSoloSweep == SweepFetch(SoloSweep) \/ SweepRun(SoloSweep)

\* That sweep under that scheduling.
FairSpecSweep == InitLedger /\ [][NextSoloSweep]_vars /\ WF_vars(SweepRun(SoloSweep))

\* A stored salt that does not decode to 32 bytes: one byte short.
TruncatedSalt(salt) == SubSeq(salt, 1, Len(salt) - 2)

\* A ledger of rows a sweep reads, pending or funded, whose salt column
\* may hold a value that insert_deposit did not write.
InitLedgerSalts ==
  /\ \E n \in 0..MaxLedger :
       \E st \in [1..n -> CandidateStatuses] : \E intact \in [1..n -> BOOLEAN] :
         /\ deposits =
              [k \in 1..n |->
                 IF intact[k] THEN LedgerRow(k, st[k])
                 ELSE [LedgerRow(k, st[k]) EXCEPT !.salt = TruncatedSalt(@)]]
         /\ user_nonces = [key \in {UserOf(k) : k \in 1..n} |-> 1]
  /\ db_writer = 0
  /\ req = [r \in Reqs |-> IdleReq]
  /\ sweep = [s \in Sweeps |-> IdleSweep]
  /\ rpc_config_ok \in BOOLEAN
  /\ gateway_calls = [s \in Sweeps |-> <<>>]
  /\ transferred = {}
  /\ pure_call = NoCall

\* The POST /router sweeps over a ledger with such rows.
SpecSweepSalts == InitLedgerSalts /\ [][NextSweep]_vars

\* ================================================================== claims
\* ------------------------------------------------------------ allocation
\* The request has called get_and_increment_nonce and the call has returned.
AllocationReturned(r) ==
  /\ req[r].user_address_str # <<>>
  /\ req[r].pc \in {"insert", "done"}

\* The call of request r returned Ok(nonce).
AllocationOk(r) == req[r].nonce # None

\* The call of request r returned an error the database refused it with
\* (not an I/O failure).
AllocationRefused(r) ==
  /\ AllocationReturned(r)
  /\ ~AllocationOk(r)
  /\ req[r].result = ErrUnique

SameUser(r1, r2) ==
  /\ req[r1].user_address_str # <<>>
  /\ req[r1].user_address_str = req[r2].user_address_str

\* C1: for every interleaving of get_and_increment_nonce calls for the same
\* user, no two calls that return Ok return the same nonce.
C1_NoDuplicateNonce ==
  \A r1, r2 \in Reqs :
    (r1 # r2 /\ SameUser(r1, r2) /\ AllocationOk(r1) /\ AllocationOk(r2))
      => req[r1].nonce # req[r2].nonce

\* C1 witness: two calls for the same user have both returned, one of them Ok.
C1_Witness ==
  \E r1, r2 \in Reqs :
    /\ r1 # r2 /\ SameUser(r1, r2)
    /\ AllocationReturned(r1) /\ AllocationOk(r1)
    /\ AllocationReturned(r2) /\ AllocationRefused(r2)

\* C2 (as claimed): starting from no counter row, once the N calls for a
\* user have all returned, none of them hit by an I/O failure, all N
\* returned Ok and the nonces returned are exactly 0..N-1.
C2_DenseNonces ==
  \A r0 \in Reqs :
    LET calls == {r \in Reqs : SameUser(r0, r)}
    IN  (/\ calls # {}
         /\ \A r \in calls : AllocationReturned(r)
         /\ \A r \in calls : AllocationOk(r) \/ req[r].result # ErrIo)
        => /\ \A r \in calls : AllocationOk(r)
           /\ {req[r].nonce[1] : r \in calls} = 0..(Cardinality(calls) - 1)

\* C3: in every step a user's next_nonce does not decrease (and its counter
\* row does not vanish), and a nonce a call returns was not returned to any
\* earlier call for that user, whether or not that call's deposit insert
\* went through.
C3_Step ==
  /\ \A key \in DOMAIN user_nonces :
       key \in DOMAIN user_nonces' /\ user_nonces'[key] >= user_nonces[key]
  /\ \A r \in Reqs :
       (~AllocationOk(r) /\ req'[r].nonce # None)
         => /\ \A r2 \in Reqs \ {r} :
                 (SameUser(r, r2) /\ AllocationOk(r2)) => req[r2].nonce # req'[r].nonce
            /\ req'[r].user_address_str \in DOMAIN user_nonces'
            /\ user_nonces'[req'[r].user_address_str] > req'[r].nonce[1]

C3_NonceNeverReused == [][C3_Step]_vars

\* C3 witness: a nonce was handed out, the deposit insert that followed
\* failed, and a later call for the same user has returned.
C3_Witness ==
  \E r1, r2 \in Reqs :
    /\ r1 # r2 /\ SameUser(r1, r2)
    /\ AllocationOk(r1) /\ req[r1].pc = "done" /\ req[r1].result = ErrIo
    /\ AllocationRefused(r2)
    /\ user_nonces[req[r1].user_address_str] = 1

\* C4: no two deposit rows have the same deposit_address, no two have the
\* same (user_address, nonce), and rows of distinct (user, nonce) pairs
\* carry distinct deposit addresses.
C4_UniqueDeposits ==
  \A i, j \in 1..Len(deposits) :
    i # j =>
      /\ deposits[i].deposit_address # deposits[j].deposit_address
      /\ <<deposits[i].user_address, deposits[i].nonce>>
           # <<deposits[j].user_address, deposits[j].nonce>>
      /\ <<parse_address(deposits[i].user_address).val, deposits[i].nonce>>
           # <<parse_address(deposits[j].user_address).val, deposits[j].nonce>>

\* C4 witness: the ledger holds two deposit rows.
C4_Witness == Len(deposits) >= 2

\* ----------------------------------------------------------------- sweeps
\* Position of a status on the path pending -> funded -> deployed -> routed
StatusRank(st) ==
  CASE st = "pending" -> 0 [] st = "funded" -> 1 [] st = "deployed" -> 2
    [] st = "routed" -> 3 [] OTHER -> -1

ForwardMove(a, b) ==
  \/ a = b
  \/ a # "failed" /\ b # "failed" /\ StatusRank(b) > StatusRank(a)
  \/ a \in {"funded", "deployed"} /\ b = "failed"

\* The persisted status of the deposit at an address
StatusOf(rows, addr) ==
  rows[CHOOSE k \in 1..Len(rows) : rows[k].deposit_address = addr].status

\* The salt a sweep parsed for the deposit at an address of its batch
SaltOf(s, addr) ==
  LET batch == sweep[s].salts_and_deposits
  IN  batch[CHOOSE k \in 1..Len(batch) : batch[k][2] = addr][1]

\* The gateway calls made so far, as (sweep, position) pairs
CallIds == UNION {{<<s, j>> : j \in 1..Len(gateway_calls[s])} : s \in Sweeps}
Call(c) == gateway_calls[c[1]][c[2]]

DeployCallsWith(salt) ==
  {c \in CallIds : /\ Call(c).op = "deploy_multiple"
                   /\ \E i \in 1..Len(Call(c).salts) : Call(c).salts[i] = salt}

TransferCalls(s) ==
  {j \in 1..Len(gateway_calls[s]) : gateway_calls[s][j].op = "transfer_funds"}

DeployCalls(s) ==
  {j \in 1..Len(gateway_calls[s]) : gateway_calls[s][j].op = "deploy_multiple"}

BatchAddrs(s) ==
  {sweep[s].salts_and_deposits[k][2] : k \in 1..Len(sweep[s].salts_and_deposits)}

\* C5 (as claimed): across any sweeps, overlapping ones included, every
\* write moves a deposit's persisted status forward along pending ->
\* funded -> deployed -> routed, or from funded or deployed to failed.
C5_StatusOnlyForward ==
  [][\A k \in 1..Len(deposits) :
       ForwardMove(deposits[k].status, deposits'[k].status)]_vars

\* C6 (as claimed): once a deposit's persisted status is routed, no step of
\* any sweep changes it.
C6_RoutedIsTerminal ==
  [][\A k \in 1..Len(deposits) :
       deposits[k].status = "routed" => deposits'[k].status = "routed"]_vars

\* C7 (as claimed): a deposit's salt is included in at most one
\* deploy_multiple call, and at most one transfer_funds call is made for a
\* deposit after a transfer for it has succeeded.
C7_NoDoubleProcessing ==
  \A k \in 1..Len(deposits) :
    /\ Cardinality(DeployCallsWith(parse_salt(deposits[k].salt).val)) <= 1
    /\ Cardinality({c \in CallIds : /\ Call(c).op = "transfer_funds"
                                    /\ Call(c).proxy = deposits[k].deposit_address
                                    /\ Call(c).after_ok}) <= 1

\* C8 (as claimed): when a sweep returns after its deploy_multiple call
\* failed, every deposit of the batch is persisted as failed, the sweep has
\* made no transfer_funds call, and its summary lists the deploy error.
C8_FailedDeployMarksBatch ==
  [][\A s \in Sweeps :
       (sweep[s].pc = "mark_failed" /\ sweep'[s].pc = "done")
         => /\ \A addr \in BatchAddrs(s) : StatusOf(deposits', addr) = "failed"
            /\ TransferCalls(s) = {}
            /\ \E e \in 1..Len(sweep'[s].response.errors) :
                 sweep'[s].response.errors[e][1] = "Deploy failed"]_vars

\* C9 (as claimed): when a sweep whose deploy_multiple call succeeded
\* proceeds past its updates, every deposit of the batch is persisted as
\* deployed or routed.
C9_DeployedBeforeTransfer ==
  [][\A s \in Sweeps :
       (sweep[s].pc = "mark_deployed" /\ sweep'[s].pc # "mark_deployed")
         => \A addr \in BatchAddrs(s) :
              StatusOf(deposits', addr) \in {"deployed", "routed"}]_vars

\* C10: within one sweep at most one deploy_multiple call is made, and
\* every transfer_funds call comes after the completed deploy_multiple call
\* whose batch holds the deposit's salt.
C10_DeployBeforeTransfer ==
  \A s \in Sweeps :
    /\ Cardinality(DeployCalls(s)) <= 1
    /\ \A j \in TransferCalls(s) :
         \E i \in DeployCalls(s) :
           /\ i < j
           /\ \E n \in 1..Len(gateway_calls[s][i].salts) :
                gateway_calls[s][i].salts[n] = SaltOf(s, gateway_calls[s][j].proxy)

\* C10 witness: a sweep has deployed a batch of two and then called
\* transfer_funds for both of its deposits.
C10_Witness ==
  \E s \in Sweeps :
    /\ \E i \in DeployCalls(s) : Len(gateway_calls[s][i].salts) = 2
    /\ Cardinality(TransferCalls(s)) = 2

\* ------------------------------------------------------ steps of a sweep
\* get_balance calls of the balance-check step: those before the deploy call
CheckCalls(s) ==
  {j \in 1..Len(gateway_calls[s]) :
     /\ gateway_calls[s][j].op = "get_balance"
     /\ \A i \in DeployCalls(s) : j < i}

\* get_balance calls of the transfer step: those after the deploy call
RecheckCalls(s) ==
  {j \in 1..Len(gateway_calls[s]) :
     /\ gateway_calls[s][j].op = "get_balance"
     /\ \E i \in DeployCalls(s) : i < j}

\* The entries of a sweep's error list of one kind for one deposit
ErrorsOf(s, kind, addr) ==
  {e \in 1..Len(sweep[s].response.errors) :
     sweep[s].response.errors[e] = <<kind, addr>>}

DeploySucceeded(s) == \E i \in DeployCalls(s) : gateway_calls[s][i].ok

\* C11: every failed transfer_funds call has one entry in the error list,
\* and a sweep that returns after a successful deploy has re-checked every
\* deposit of the batch and called transfer_funds for each one whose
\* re-checked balance was non-zero, whatever the other transfers returned.
C11_TransfersIndependent ==
  \A s \in Sweeps :
    /\ \A j \in TransferCalls(s) :
         ~gateway_calls[s][j].ok
           => Cardinality(ErrorsOf(s, "Transfer failed", gateway_calls[s][j].proxy)) = 1
    /\ (sweep[s].pc = "done" /\ DeploySucceeded(s))
         => /\ \A addr \in BatchAddrs(s) :
                 \E j \in RecheckCalls(s) : gateway_calls[s][j].proxy = addr
            /\ \A j \in RecheckCalls(s) :
                 gateway_calls[s][j].balance > 0
                   => \E t \in TransferCalls(s) :
                        /\ j < t
                        /\ gateway_calls[s][t].proxy = gateway_calls[s][j].proxy

\* C11 witness: a sweep has returned whose first transfer failed and whose
\* second transfer was attempted all the same.
C11_Witness ==
  \E s \in Sweeps :
    /\ sweep[s].pc = "done"
    /\ Cardinality(TransferCalls(s)) = 2
    /\ \E j, t \in TransferCalls(s) :
         /\ j < t
         /\ ~gateway_calls[s][j].ok
         /\ gateway_calls[s][j].proxy # gateway_calls[s][t].proxy

\* The deposit a sweep is transferring from
CurrentAddr(s) == sweep[s].salts_and_deposits[sweep[s].i][2]

\* The entries of a sweep's transfer list for one deposit
RouteEntries(sw, addr) ==
  {e \in 1..Len(sw.response.route_tx_hashes) :
     sw.response.route_tx_hashes[e].proxy_address = addr}

\* C12 (as claimed): once transfer_funds has succeeded for a deposit and the
\* sweep has gone on, the deposit is persisted as routed and the summary
\* holds one (proxy address, transaction id, amount) entry for it; and a row
\* becomes routed only by the step of a sweep whose transfer_funds call for
\* that deposit succeeded.
C12_RoutedAfterTransfer ==
  [][/\ \A s \in Sweeps :
          (sweep[s].pc = "mark_routed" /\ sweep'[s] # sweep[s])
            => /\ StatusOf(deposits', CurrentAddr(s)) = "routed"
               /\ Cardinality(RouteEntries(sweep'[s], CurrentAddr(s))) = 1
     /\ \A k \in 1..Len(deposits) :
          (deposits[k].status # "routed" /\ deposits'[k].status = "routed")
            => \E s \in Sweeps :
                 /\ sweep[s].pc = "mark_routed" /\ sweep'[s] # sweep[s]
                 /\ CurrentAddr(s) = deposits[k].deposit_address
                 /\ \E t \in TransferCalls(s) :
                      /\ gateway_calls[s][t].ok
                      /\ gateway_calls[s][t].proxy = deposits[k].deposit_address]_vars

\* The deposits whose balance query failed in a sweep's balance-check step
BalanceFailedAddrs(s) ==
  {gateway_calls[s][j].proxy : j \in {c \in CheckCalls(s) : ~gateway_calls[s][c].ok}}

\* The deposits a sweep holds a balance for
BalanceAddrs(s) == {sweep[s].balances[k][1] : k \in 1..Len(sweep[s].balances)}

NewlyFundedAddrs(s) == {sweep[s].newly_funded[k] : k \in 1..Len(sweep[s].newly_funded)}

\* What holds of a deposit whose balance query failed in sweep s
BalanceFailureHandled(s, addr) ==
  /\ Cardinality(ErrorsOf(s, "Balance check failed", addr)) = 1
  /\ addr \notin BalanceAddrs(s)
  /\ addr \notin NewlyFundedAddrs(s)
  /\ addr \notin BatchAddrs(s)

\* C13: a pending deposit whose balance query failed in a sweep has one
\* entry in that sweep's error list, is neither promoted nor put in the
\* deploy batch by it, and no step of that sweep changes its persisted
\* status.
C13_BalanceFailureExcludes ==
  [][\A s \in Sweeps : \A addr \in BalanceFailedAddrs(s)' :
       /\ BalanceFailureHandled(s, addr)'
       /\ sweep'[s] # sweep[s] => StatusOf(deposits', addr) = StatusOf(deposits, addr)]_vars

\* C13 witness: a sweep has returned after deploying a batch, one pending
\* deposit's balance query had failed, and that deposit is still pending.
C13_Witness ==
  \E s \in Sweeps :
    /\ sweep[s].pc = "done"
    /\ DeployCalls(s) # {}
    /\ \E addr \in BalanceFailedAddrs(s) : StatusOf(deposits, addr) = "pending"

\* The balance queries of the balance-check step that succeeded
OkCheckCalls(s) == {c \in CheckCalls(s) : gateway_calls[s][c].ok}

\* The deposits whose balance query returned a balance above zero, and zero
PositiveAddrs(s) ==
  {gateway_calls[s][j].proxy : j \in {c \in OkCheckCalls(s) : gateway_calls[s][c].balance > 0}}
ZeroAddrs(s) ==
  {gateway_calls[s][j].proxy : j \in {c \in OkCheckCalls(s) : gateway_calls[s][c].balance = 0}}

\* The sweep has left its balance-check and promotion loops
PastPromotion(s) == sweep[s].pc \notin {"idle", "balance", "promote"}

\* C14: a sweep issues the update to funded for a pending deposit exactly
\* when its balance query succeeded with a balance above zero: a row
\* becomes funded only by such an update, every such deposit has had its
\* update issued (it is newly funded, or the update's failure is reported)
\* once the promotion loop is over, and a deposit whose balance is zero is
\* not promoted, not put in the deploy batch and not written by the sweep.
C14_FundedIffPositiveBalance ==
  [][/\ \A k \in 1..Len(deposits) :
          (deposits[k].status # "funded" /\ deposits'[k].status = "funded")
            => \E s \in Sweeps :
                 /\ sweep[s].pc = "promote" /\ sweep'[s] # sweep[s]
                 /\ deposits[k].deposit_address \in PositiveAddrs(s)
     /\ \A s \in Sweeps :
          /\ NewlyFundedAddrs(s)' \subseteq PositiveAddrs(s)'
          /\ PastPromotion(s)' =>
               \A addr \in PositiveAddrs(s)' :
                 (addr \in NewlyFundedAddrs(s)')
                   # (ErrorsOf(s, "DB update failed", addr)' # {})
          /\ \A addr \in ZeroAddrs(s)' :
               /\ addr \notin NewlyFundedAddrs(s)'
               /\ addr \notin BatchAddrs(s)'
               /\ sweep'[s] # sweep[s]
                    => StatusOf(deposits', addr) = StatusOf(deposits, addr)]_vars

\* C14 witness: a sweep is past its promotion loop, having promoted one
\* pending deposit with a positive balance, now persisted as funded, and
\* left another with balance zero pending.
C14_Witness ==
  \E s \in Sweeps :
    /\ PastPromotion(s)
    /\ \E addr \in PositiveAddrs(s) :
         addr \in NewlyFundedAddrs(s) /\ StatusOf(deposits, addr) = "funded"
    /\ \E addr \in ZeroAddrs(s) : StatusOf(deposits, addr) = "pending"

\* The deposits whose update to funded a sweep reports as failed
UpdateFailedAddrs(s) ==
  {sweep[s].response.errors[e][2] :
     e \in {x \in 1..Len(sweep[s].response.errors) :
              sweep[s].response.errors[x][1] = "DB update failed"}}

\* C15: every update to funded a sweep issues either succeeds, making the
\* deposit newly funded, or fails, adding one entry to the error list and
\* not both; and a deposit whose update failed is not in the sweep's deploy
\* batch.
C15_FailedPromotionExcluded ==
  [][\A s \in Sweeps :
       /\ (sweep[s].pc = "promote" /\ sweep'[s] # sweep[s])
            => \A addr \in {sweep[s].balances[sweep[s].i][1]} :
                   IF addr \in NewlyFundedAddrs(s)'
                   THEN ErrorsOf(s, "DB update failed", addr)' = {}
                   ELSE /\ Cardinality(ErrorsOf(s, "DB update failed", addr)') = 1
                        /\ deposits' = deposits
       /\ \A addr \in UpdateFailedAddrs(s)' :
            /\ addr \notin NewlyFundedAddrs(s)'
            /\ addr \notin BatchAddrs(s)']_vars

\* C15 witness: a sweep has deployed a batch although the update to funded
\* of one pending deposit with a positive balance had failed; that deposit
\* is not in the batch.
C15_Witness ==
  \E s \in Sweeps :
    /\ DeployCalls(s) # {}
    /\ \E addr \in UpdateFailedAddrs(s) :
         addr \in PositiveAddrs(s) /\ addr \notin BatchAddrs(s)

\* The deposits a sweep found funded when it fetched, and those it promoted
CandidateAddrs(s) ==
  {funded_deposits(sweep[s])[k].deposit_address : k \in 1..Len(funded_deposits(sweep[s]))}
    \cup NewlyFundedAddrs(s)

\* The salt column of a deposit as the sweep fetched it
FetchedSalt(s, addr) ==
  sweep[s].deposits[CHOOSE k \in 1..Len(sweep[s].deposits) :
                      sweep[s].deposits[k].deposit_address = addr].salt

\* The deploy batch is what the funded deposits with decodable salts give,
\* and each funded deposit with an undecodable salt is reported once
BatchCollected(s) ==
  /\ BatchAddrs(s) = {a \in CandidateAddrs(s) : parse_salt(FetchedSalt(s, a)).ok}
  /\ Len(sweep[s].salts_and_deposits) = Cardinality(BatchAddrs(s))
  /\ \A k \in 1..Len(sweep[s].salts_and_deposits) :
       LET entry == sweep[s].salts_and_deposits[k]
       IN  /\ entry[3] = FetchedSalt(s, entry[2])
           /\ entry[1] = parse_salt(entry[3]).val
  /\ \A a \in CandidateAddrs(s) :
       Cardinality(ErrorsOf(s, "Invalid salt", a))
         = IF parse_salt(FetchedSalt(s, a)).ok THEN 0 ELSE 1

\* The entries of a sweep's error list that report an undecodable salt
InvalidSaltErrors(s) ==
  {e \in 1..Len(sweep[s].response.errors) :
     sweep[s].response.errors[e][1] = "Invalid salt"}

\* The deploy call passes the batch's salts, and the deployed count is the
\* size of the batch once the call has succeeded
BatchDeployed(s) ==
  /\ (BatchAddrs(s) # {} /\ sweep[s].pc # "deploy") <=> (DeployCalls(s) # {})
  /\ \A i \in DeployCalls(s) :
       gateway_calls[s][i].salts =
         [k \in 1..Len(sweep[s].salts_and_deposits) |-> sweep[s].salts_and_deposits[k][1]]
  /\ sweep[s].response.deployed =
       IF DeploySucceeded(s) THEN Len(sweep[s].salts_and_deposits) ELSE 0

\* C16: when a sweep leaves its promotion loop it has collected its deploy
\* batch: exactly the previously funded and newly funded deposits whose
\* stored salt decodes to 32 bytes, each with its decoded salt, every other
\* such deposit having one 'Invalid salt' entry in the error list.  From
\* then on the batch and those entries stay as they are, the
\* deploy_multiple call, made whenever the batch is not empty, passes the
\* batch's salts, and after a successful deploy the summary's deployed count
\* is the size of the batch.
C16_BatchOfDecodableSalts ==
  [][\A s \in Sweeps :
       /\ (~PastPromotion(s) /\ PastPromotion(s)') => BatchCollected(s)'
       /\ PastPromotion(s) =>
            /\ sweep'[s].salts_and_deposits = sweep[s].salts_and_deposits
            /\ sweep'[s].deposits = sweep[s].deposits
            /\ sweep'[s].newly_funded = sweep[s].newly_funded
            /\ InvalidSaltErrors(s)' = InvalidSaltErrors(s)
       /\ PastPromotion(s)' => BatchDeployed(s)']_vars

\* C16 witness: of two funded deposits one had an undecodable salt; the
\* sweep reported it, deployed the other and counts one deployed.
C16_Witness ==
  \E s \in Sweeps :
    /\ Cardinality(CandidateAddrs(s)) = 2
    /\ DeploySucceeded(s)
    /\ sweep[s].response.deployed = 1
    /\ \E a \in CandidateAddrs(s) : Cardinality(ErrorsOf(s, "Invalid salt", a)) = 1

\* The gateway call a sweep made last
LastCall(s) == gateway_calls[s][Len(gateway_calls[s])]

\* C17: when the re-check in the transfer step gives a non-zero balance the
\* sweep goes on to call transfer_funds for that deposit; otherwise the
\* deposit is skipped: the step leaves the ledger, the summary's transfer
\* list and routed count and the sweep's transfer_funds calls as they were
\* and moves to the next deposit.  Every transfer_funds call directly
\* follows a re-check of the same deposit that returned a non-zero balance.
C17_ZeroBalanceSkipped ==
  [][\A s \in Sweeps :
       /\ (sweep[s].pc = "transfer" /\ sweep'[s] # sweep[s])
            => \A call \in {LastCall(s)'} :
                 /\ Len(gateway_calls'[s]) = Len(gateway_calls[s]) + 1
                 /\ call.op = "get_balance"
                 /\ call.proxy = CurrentAddr(s)
                 /\ IF call.balance # 0
                    THEN /\ sweep'[s].pc = "transfer_funds"
                         /\ sweep'[s].i = sweep[s].i
                         /\ sweep'[s].balance = call.balance
                    ELSE /\ deposits' = deposits
                         /\ sweep'[s].response = sweep[s].response
                         /\ transferred' = transferred
                         /\ sweep'[s].pc \in {"transfer", "done"}
                         /\ sweep'[s].pc = "transfer" => sweep'[s].i = sweep[s].i + 1
       /\ \A t \in TransferCalls(s)' :
            /\ t - 1 \in RecheckCalls(s)'
            /\ gateway_calls'[s][t - 1].proxy = gateway_calls'[s][t].proxy
            /\ gateway_calls'[s][t - 1].ok
            /\ gateway_calls'[s][t - 1].balance # 0]_vars

\* C17 witness: a sweep has returned having re-checked a deployed deposit
\* with balance zero; it made no transfer_funds call for it and the deposit
\* is still persisted as deployed.
C17_Witness ==
  \E s \in Sweeps :
    /\ sweep[s].pc = "done"
    /\ \E j \in RecheckCalls(s) :
         /\ gateway_calls[s][j].ok /\ gateway_calls[s][j].balance = 0
         /\ \A t \in TransferCalls(s) : gateway_calls[s][t].proxy # gateway_calls[s][j].proxy
         /\ StatusOf(deposits, gateway_calls[s][j].proxy) = "deployed"

\* The gateway calls of a sweep that failed
FailedCalls(s) == {j \in 1..Len(gateway_calls[s]) : ~gateway_calls[s][j].ok}

\* The kinds of entry of the error list that report a ledger or salt error
\* and not a gateway failure
LedgerErrorKinds == {"Database error", "DB update failed", "Invalid salt"}

\* The entries of a sweep's error list that report a failed gateway call
GatewayErrors(s) ==
  {e \in 1..Len(sweep[s].response.errors) :
     sweep[s].response.errors[e][1] \notin LedgerErrorKinds \cup {"RPC initialization failed"}}

\* C18 (as claimed): every failed gateway call of a sweep, be it a balance
\* query of the balance-check step, a balance re-check of the transfer step,
\* deploy_multiple or transfer_funds, has its own entry in the sweep's error
\* list.
C18_GatewayFailuresCollected ==
  \A s \in Sweeps :
    /\ Cardinality(GatewayErrors(s)) = Cardinality(FailedCalls(s))
    /\ \A j \in FailedCalls(s) :
         \E e \in GatewayErrors(s) :
           IF sweep[s].response.errors[e][1] = "Deploy failed"
           THEN gateway_calls[s][j].op = "deploy_multiple"
           ELSE /\ gateway_calls[s][j].op # "deploy_multiple"
                /\ sweep[s].response.errors[e][2] = gateway_calls[s][j].proxy

\* The deposits for which a balance query of the balance-check step or a
\* transfer_funds call of a sweep failed
RetryAddrs(s) ==
  {gateway_calls[s][j].proxy :
     j \in {c \in FailedCalls(s) : c \in CheckCalls(s) \cup TransferCalls(s)}}

\* The sweep's read of the ledger succeeded
Fetched(sw) ==
  /\ sw.pc # "idle"
  /\ \A e \in 1..Len(sw.response.errors) :
       sw.response.errors[e][1] \notin {"RPC initialization failed", "Database error"}

FetchedAddrs(sw) == {sw.deposits[k].deposit_address : k \in 1..Len(sw.deposits)}

\* C19 (as claimed): a failed balance query or a failed transfer_funds call
\* leaves the ledger as it was, and the next sweep to read the ledger after
\* the failing sweep has returned picks the deposit up again.
C19_FailedDepositRetried ==
  [][\A s \in Sweeps :
       /\ (sweep'[s] # sweep[s] /\ RetryAddrs(s)' # RetryAddrs(s)) => deposits' = deposits
       /\ (sweep[s].pc = "idle" /\ Fetched(sweep'[s]))
            => \A prev \in Sweeps \ {s} :
                 sweep[prev].pc = "done" => RetryAddrs(prev) \subseteq FetchedAddrs(sweep'[s])]_vars

\* C20: a sweep never returns an error result: whenever it has returned,
\* it has returned its summary; and a sweep that has started returns.
C20_AlwaysSummary ==
  /\ [](\A s \in Sweeps :
          /\ sweep[s].result \in {"none", "Ok"}
          /\ sweep[s].pc = "done" <=> sweep[s].result = "Ok")
  /\ (sweep[SoloSweep].pc # "idle") ~> (sweep[SoloSweep].pc = "done")

\* C20 witness: a sweep has returned its summary after a failed balance
\* query and a failed deploy, both in its error list.
C20_Witness ==
  \E s \in Sweeps :
    /\ sweep[s].result = "Ok"
    /\ \A kind \in {"Balance check failed", "Deploy failed"} :
         \E e \in 1..Len(sweep[s].response.errors) :
           sweep[s].response.errors[e][1] = kind

\* ------------------------------------------------------- address issuance
\* The request has returned
Returned(r) == req[r].pc = "done"

\* The request returned Ok(Json(CreateDepositResponse {..}))
ReturnedOk(r) == Returned(r) /\ req[r].result = "ok"

\* The deposit rows stored for a (user, nonce)
RowsOf(rows, user_address, nonce) ==
  {k \in 1..Len(rows) : rows[k].user_address = user_address /\ rows[k].nonce = nonce}

\* C21: a create_deposit request that returns Ok returns the
\* (deposit_address, salt, nonce) of the one row its last step has appended
\* to the ledger, in status pending, the only row of that (user, nonce); a
\* request that returns an error has inserted no row, and no row of the
\* ledger carries the nonce it was given; no other step of a request
\* touches the ledger, so that the ledger holds one row per request that
\* returned Ok.
C21_AllOrNothing ==
  [][/\ \A r \in Reqs :
          IF req'[r] = req[r] THEN TRUE
          ELSE IF ReturnedOk(r)'
          THEN /\ Len(deposits') = Len(deposits) + 1
               /\ SubSeq(deposits', 1, Len(deposits)) = deposits
               /\ \A row \in {deposits'[Len(deposits')]} :
                    /\ row.status = "pending"
                    /\ row.user_address = req'[r].user_address_str
                    /\ row.nonce = req'[r].nonce[1]
                    /\ row.deposit_address = req'[r].deposit_address
                    /\ row.salt = req'[r].salt
               /\ Cardinality(RowsOf(deposits', req'[r].user_address_str,
                                     req'[r].nonce[1])) = 1
          ELSE /\ deposits' = deposits
               /\ (Returned(r)' /\ req'[r].nonce # None)
                    => RowsOf(deposits', req'[r].user_address_str, req'[r].nonce[1]) = {}
     /\ Len(deposits') = Cardinality({r \in Reqs : ReturnedOk(r)'})]_vars

\* C21 witness: one request has returned its deposit, stored in the ledger,
\* and another, given a nonce, has returned the error of its failed insert.
C21_Witness ==
  \E r1, r2 \in Reqs :
    /\ ReturnedOk(r1) /\ Len(deposits) = 1
    /\ Returned(r2) /\ req[r2].result = ErrIo /\ req[r2].nonce # None

\* The digits of a user string: what follows its 0x prefix, if it has one
AddressDigits(user) ==
  IF Len(user) >= 2 /\ user[1] = "0" /\ user[2] \in {"x", "X"}
  THEN SubSeq(user, 3, Len(user)) ELSE user

\* Bad hex, or a decoded length other than 20 bytes
Malformed(user) ==
  \/ Len(AddressDigits(user)) # 2 * ADDRESS_LEN
  \/ \E i \in 1..Len(AddressDigits(user)) :
       AddressDigits(user)[i] \notin
         {"0", "1", "2", "3", "4", "5", "6", "7", "8", "9",
          "a", "b", "c", "d", "e", "f", "A", "B", "C", "D", "E", "F"}

\* C22: a create_deposit request whose user string is malformed returns
\* InvalidAddress in its first step, which leaves both tables as they were;
\* the request never calls get_and_increment_nonce or insert_deposit: it is
\* given no nonce, never holds the write lock and takes no further step.
C22_MalformedRejected ==
  [][\A r \in Reqs :
       /\ (req[r].pc = "idle" /\ req'[r] # req[r] /\ Malformed(req'[r].user))
            => /\ req'[r].pc = "done"
               /\ req'[r].result = "InvalidAddress"
               /\ req'[r].nonce = None
               /\ user_nonces' = user_nonces
               /\ deposits' = deposits
               /\ db_writer' = db_writer
       /\ (req[r].pc # "idle" /\ Malformed(req[r].user)) => req'[r] = req[r]]_vars

\* C22 witness: a string with a non-hex digit and a string one byte short
\* have both been rejected, the database still empty.
C22_Witness ==
  \E r1, r2 \in Reqs :
    /\ req[r1].result = "InvalidAddress" /\ req[r2].result = "InvalidAddress"
    /\ Len(AddressDigits(req[r1].user)) = 2 * ADDRESS_LEN
    /\ Len(AddressDigits(req[r2].user)) # 2 * ADDRESS_LEN
    /\ user_nonces = <<>> /\ deposits = <<>>

\* C23 (as claimed): a call of get_and_increment_nonce that no I/O failure
\* hits returns Ok: for a user without a counter row it inserts the row
\* with next_nonce = 1 and returns 0, for a user whose row holds n it sets
\* next_nonce to n + 1 and returns n; every other row is left as it was.
C23_ReadIncrementOrInsert ==
  [][\A r \in Reqs : \A key \in {req[r].user_address_str} :
       /\ (req[r].pc = "write" /\ req'[r] # req[r] /\ req'[r].result # ErrIo)
            => req'[r].pc = "commit"
       /\ (req[r].pc = "commit" /\ AllocationOk(r)')
            => /\ DOMAIN user_nonces' = DOMAIN user_nonces \cup {key}
               /\ \A k \in DOMAIN user_nonces \ {key} : user_nonces'[k] = user_nonces[k]
               /\ IF HasRow(user_nonces, key)
                  THEN /\ user_nonces'[key] = user_nonces[key] + 1
                       /\ req'[r].nonce = Some(user_nonces[key])
                  ELSE /\ user_nonces'[key] = 1
                       /\ req'[r].nonce = Some(0)]_vars

\* ------------------------------------------------------- summary of a sweep
\* The rows of the ledger in status pending or funded
OpenRows(rows) == {k \in 1..Len(rows) : rows[k].status \in {"pending", "funded"}}

\* C24: a sweep whose read of the ledger succeeds and finds no deposit in
\* status pending or funded returns in that step, its summary all zeros with
\* no transaction id, no transfer and no error; it has made no gateway call
\* and has left the ledger as it was, and a sweep that has returned takes
\* no further step.
C24_EmptySweep ==
  [][\A s \in Sweeps :
       /\ (sweep[s].pc = "idle" /\ Fetched(sweep'[s]) /\ OpenRows(deposits) = {})
            => /\ sweep'[s].pc = "done"
               /\ sweep'[s].result = "Ok"
               /\ sweep'[s].response = EmptyResponse
               /\ gateway_calls'[s] = <<>>
               /\ deposits' = deposits
               /\ user_nonces' = user_nonces
       /\ sweep[s].pc = "done"
            => sweep'[s] = sweep[s] /\ gateway_calls'[s] = gateway_calls[s]]_vars

\* C24 witness: over a ledger of two deposits, neither pending nor funded,
\* a sweep has returned the all-zero summary without a gateway call.
C24_Witness ==
  \E s \in Sweeps :
    /\ sweep[s].pc = "done"
    /\ sweep[s].response = EmptyResponse
    /\ gateway_calls[s] = <<>>
    /\ Len(deposits) = 2

\* =================================================== functions on their own
\* The service at rest, while a function is called on its own
IdleService ==
  /\ user_nonces = <<>>
  /\ deposits = <<>>
  /\ db_writer = 0
  /\ req = [r \in Reqs |-> IdleReq]
  /\ sweep = [s \in Sweeps |-> IdleSweep]
  /\ rpc_config_ok = TRUE
  /\ gateway_calls = [s \in Sweeps |-> <<>>]
  /\ transferred = {}

\* Arguments of compute_deposit_address: the deployer, init code hash and
\* user of the crate's test (0xAB.., 0xEF.., 0x42..), and others
DeployerInputs == {Rep(171, ADDRESS_LEN), Rep(1, ADDRESS_LEN)}
InitCodeHashInputs == {Rep(239, BYTES32_LEN), Rep(0, BYTES32_LEN)}
UserBytesInputs ==
  {Rep(66, ADDRESS_LEN), parse_address(UserOf(1)).val, parse_address(UserOf(2)).val}

InitAddress ==
  /\ IdleService
  /\ \E deployer \in DeployerInputs : \E init_code_hash \in InitCodeHashInputs :
       \E user_address \in UserBytesInputs : \E nonce \in 0..MaxNonce :
         pure_call = [fn |-> "compute_deposit_address",
                      args |-> <<deployer, init_code_hash, user_address, nonce>>,
                      results |-> <<>>]

\* compute_deposit_address(&deployer, &init_code_hash, &user, nonce)
CallComputeDepositAddress ==
  /\ pure_call.fn = "compute_deposit_address"
  /\ Len(pure_call.results) < MaxCalls
  /\ pure_call' =
       [pure_call EXCEPT !.results =
          Append(@, compute_deposit_address(pure_call.args[1], pure_call.args[2],
                                            pure_call.args[3], pure_call.args[4]))]
  /\ UNCHANGED <<dbVars, req, sweep, rpc_config_ok, gateway_calls, transferred>>

\* compute_deposit_address called again and again with the same arguments.
SpecAddress == InitAddress /\ [][CallComputeDepositAddress]_vars

ByteInputs == {0, 9, 171, 255}
TestAddress ==
  [i \in 1..ADDRESS_LEN |-> <<18, 52, 86, 120, 154, 188, 222, 240>>[((i - 1) % 8) + 1]]
AddressInputs ==
  {[i \in 1..ADDRESS_LEN |-> IF i % 2 = 1 THEN x ELSE y] : x, y \in ByteInputs}
    \cup {TestAddress}

\* Strings to parse: 40 hex digits of either case with and without the 0x
\* prefix, and strings parse_address rejects: an upper-case prefix, a
\* non-hex digit, 38 and 39 digits
DigitInputs == {"0", "7", "a", "F"}
HexStringInputs ==
  {prefix \o RepStr(a, b, ADDRESS_LEN) :
     prefix \in {<<>>, <<"0", "x">>}, a \in DigitInputs, b \in DigitInputs}
RejectedStringInputs ==
  { <<"0", "X">> \o RepStr("a", "F", ADDRESS_LEN),
    <<"0", "x">> \o RepStr("g", "0", ADDRESS_LEN),
    RepStr("a", "b", ADDRESS_LEN - 1),
    <<"0", "x">> \o Rep("1", 2 * ADDRESS_LEN - 1) }

InitHex ==
  /\ IdleService
  /\ \/ \E addr \in AddressInputs :
          pure_call = [fn |-> "format_address", args |-> <<addr>>, results |-> <<>>]
     \/ \E str \in HexStringInputs \cup RejectedStringInputs :
          pure_call = [fn |-> "parse_address", args |-> <<str>>, results |-> <<>>]

\* format_address(&addr): of the argument, or of the address parsed
CallFormatAddress ==
  /\ \/ /\ pure_call.fn = "format_address" /\ pure_call.results = <<>>
        /\ pure_call' = [pure_call EXCEPT !.results = <<format_address(pure_call.args[1])>>]
     \/ /\ pure_call.fn = "parse_address" /\ Len(pure_call.results) = 1
        /\ pure_call.results[1].ok
        /\ pure_call' = [pure_call EXCEPT !.results =
                           Append(@, format_address(pure_call.results[1].val))]
  /\ UNCHANGED <<dbVars, req, sweep, rpc_config_ok, gateway_calls, transferred>>

\* parse_address(&s): of the argument, or of the string formatted
CallParseAddress ==
  /\ \/ /\ pure_call.fn = "parse_address" /\ pure_call.results = <<>>
        /\ pure_call' = [pure_call EXCEPT !.results = <<parse_address(pure_call.args[1])>>]
     \/ /\ pure_call.fn = "format_address" /\ Len(pure_call.results) = 1
        /\ pure_call' = [pure_call EXCEPT !.results =
                           Append(@, parse_address(pure_call.results[1]))]
  /\ UNCHANGED <<dbVars, req, sweep, rpc_config_ok, gateway_calls, transferred>>

NextHex == CallFormatAddress \/ CallParseAddress

\* An address formatted and parsed back, a string parsed and formatted back.
SpecHex == InitHex /\ [][NextHex]_vars

\* 40 hex digits of either case, with or without the prefix 0x
HasPrefix0x(str) == Len(str) >= 2 /\ str[1] = "0" /\ str[2] = "x"
WellFormedAddress(str) ==
  LET first == IF HasPrefix0x(str) THEN 3 ELSE 1
  IN  /\ Len(str) - first + 1 = 2 * ADDRESS_LEN
      /\ \A i \in first..Len(str) :
           str[i] \in {"0", "1", "2", "3", "4", "5", "6", "7", "8", "9",
                       "a", "b", "c", "d", "e", "f", "A", "B", "C", "D", "E", "F"}

\* The 0x-prefixed lower-case form of a string
CanonicalLowercase(str) ==
  LET first == IF HasPrefix0x(str) THEN 3 ELSE 1
  IN  <<"0", "x">> \o [i \in 1..(Len(str) - first + 1) |-> LowerChar(str[first + i - 1])]

TimedRow(k, status) ==
  LET row == LedgerRow(k, status)
  IN  [id |-> row.id, user_address |-> row.user_address, salt |-> row.salt,
       deposit_address |-> row.deposit_address, nonce |-> row.nonce,
       status |-> row.status, created_at |-> 0, updated_at |-> 0]

\* The UPDATE of update_deposit_status on rows that carry their timestamp
\* columns: SET status = ?, updated_at = datetime('now')
update_deposit_status_at(rows, deposit_address, status, now) ==
  LET updated == update_deposit_status(rows, deposit_address, status)
  IN  [k \in 1..Len(rows) |->
         IF updated[k].deposit_address = deposit_address
         THEN [updated[k] EXCEPT !.updated_at = now]
         ELSE updated[k]]

\* An address no deposit row has
UnknownAddress == format_address(Rep(0, ADDRESS_LEN))

InitUpdate ==
  /\ \E n \in 1..MaxLedger : \E st \in [1..n -> Statuses] :
       /\ deposits = [k \in 1..n |-> TimedRow(k, st[k])]
       /\ user_nonces = [key \in {UserOf(k) : k \in 1..n} |-> 1]
  /\ db_writer = 0
  /\ req = [r \in Reqs |-> IdleReq]
  /\ sweep = [s \in Sweeps |-> IdleSweep]
  /\ rpc_config_ok = TRUE
  /\ gateway_calls = [s \in Sweeps |-> <<>>]
  /\ transferred = {}
  /\ pure_call = [fn |-> "update_deposit_status", args |-> <<>>, results |-> <<>>]

\* update_deposit_status(&pool, deposit_address, status) at the time of the
\* call, one second after the call before: the statement is executed, or
\* fails and changes nothing
CallUpdateDepositStatus ==
  /\ pure_call.fn = "update_deposit_status"
  /\ Len(pure_call.args) < MaxCalls
  /\ \E deposit_address \in
          {deposits[k].deposit_address : k \in 1..Len(deposits)} \cup {UnknownAddress} :
       \E status \in Statuses : \E ok \in BOOLEAN :
         LET now == Len(pure_call.args) + 1
         IN  /\ deposits' = IF ok
                            THEN update_deposit_status_at(deposits, deposit_address,
                                                          status, now)
                            ELSE deposits
             /\ pure_call' =
                  [pure_call EXCEPT
                     !.args = Append(@, <<deposit_address, status, now>>),
                     !.results = Append(@, IF ok THEN Ok(<<>>) ELSE Err(ErrIo))]
  /\ UNCHANGED <<user_nonces, db_writer, req, sweep, rpc_config_ok, gateway_calls,
                 transferred>>

\* update_deposit_status called on a ledger of deposits in any status.
SpecUpdate == InitUpdate /\ [][CallUpdateDepositStatus]_vars

\* The arguments and the result of the call made last
LastArgs(pc) == pc.args[Len(pc.args)]
LastResult(pc) == pc.results[Len(pc.results)]

\* C27: a call of update_deposit_status that succeeds writes the new status,
\* whatever the status before and the status given, and the time of the
\* call as updated_at to the row of the address given, and leaves that
\* row's other fields, every other row, the number of rows and the nonce
\* counters as they were; a later call overwrites what an earlier one wrote.
C27_UpdateUnconditional ==
  [][pure_call' # pure_call =>
       \A deposit_address \in {LastArgs(pure_call')[1]} :
       \A status \in {LastArgs(pure_call')[2]} :
       \A now \in {LastArgs(pure_call')[3]} :
         IF ~LastResult(pure_call').ok THEN deposits' = deposits
         ELSE /\ Len(deposits') = Len(deposits)
              /\ user_nonces' = user_nonces
              /\ \A k \in 1..Len(deposits) :
                   IF deposits[k].deposit_address = deposit_address
                   THEN /\ deposits'[k].status = status
                        /\ deposits'[k].updated_at = now
                        /\ [deposits'[k] EXCEPT !.status = deposits[k].status,
                                                !.updated_at = deposits[k].updated_at]
                             = deposits[k]
                   ELSE deposits'[k] = deposits[k]]_vars

\* C27 witness: of two rows, the first has been set to deployed and then to
\* pending, a move the transition table does not have; it is pending,
\* updated at the time of the second call, and the other row is untouched.
C27_Witness ==
  /\ pure_call.fn = "update_deposit_status"
  /\ Len(deposits) = 2
  /\ Len(pure_call.args) = 2
  /\ pure_call.args[1][1] = deposits[1].deposit_address
  /\ pure_call.args[2][1] = deposits[1].deposit_address
  /\ pure_call.args[1][2] = "deployed"
  /\ pure_call.args[2][2] = "pending"
  /\ deposits[1].status = "pending"
  /\ deposits[1].updated_at = 2
  /\ deposits[1].created_at = 0
  /\ deposits[2] = TimedRow(2, "routed")

\* C28 (as claimed): in the summary a sweep returns after reading the
\* ledger, checked is the number of pending deposits whose balance the sweep
\* queried and funded is the number of deposits the sweep promoted to
\* funded; deposits fetched as funded are counted in neither.
C28_CheckedAndFundedCounts ==
  \A s \in Sweeps :
    (sweep[s].pc = "done" /\ Fetched(sweep[s]))
      => /\ sweep[s].response.checked = Cardinality(CheckCalls(s))
         /\ sweep[s].response.funded = Len(sweep[s].newly_funded)

\* One sweep on its own over a ledger earlier requests and sweeps have
\* left: every write to the ledger is this sweep's.
SpecSoloSweep == InitLedger /\ [][NextSoloSweep]_vars

\* The deposits of a sweep's batch persisted in a status
BatchIn(s, status) == {addr \in BatchAddrs(s) : StatusOf(deposits, addr) = status}

\* C29 (as claimed): when a sweep running alone has gone through its updates
\* to deployed, the deployed count of its summary is the number of deposits
\* it has set to deployed, and when it returns, the routed count is the
\* number of deposits it has set to routed, whether or not a status update
\* failed.
C29_SummaryAgreesWithLedger ==
  [][\A s \in {SoloSweep} :
       /\ (sweep[s].pc = "mark_deployed" /\ sweep'[s].pc # "mark_deployed")
            => sweep'[s].response.deployed
                 = Cardinality(BatchIn(s, "deployed")')
       /\ (sweep[s].pc # "done" /\ sweep'[s].pc = "done")
            => sweep'[s].response.routed
                 = Cardinality(BatchIn(s, "routed")')]_vars

\* C30: the deposits a sweep fetches are the rows then in status pending or
\* funded, and they stay its candidates; every balance query, every salt of
\* its deploy call (the salt its batch holds for a deposit), every transfer
\* and every status update of the sweep is for one of them, so that a
\* deposit deployed, failed or routed when the sweep fetched is not touched
\* by it; a step of a sweep changes nothing of a row but its status, inserts
\* and deletes no row and changes no nonce counter.
C30_SweepFrame ==
  [][\A s \in Sweeps :
       sweep'[s] # sweep[s] =>
         /\ (sweep[s].pc = "idle" /\ Fetched(sweep'[s]))
              => /\ FetchedAddrs(sweep'[s])
                      = {deposits[k].deposit_address : k \in OpenRows(deposits)}
                 /\ Len(sweep'[s].deposits) = Cardinality(OpenRows(deposits))
         /\ sweep[s].pc # "idle" => sweep'[s].deposits = sweep[s].deposits
         /\ gateway_calls'[s] # gateway_calls[s]
              => \A made \in {LastCall(s)'} :
                   IF made.op = "deploy_multiple"
                   THEN /\ Len(made.salts) = Len(sweep[s].salts_and_deposits)
                        /\ \A n \in 1..Len(made.salts) :
                             /\ made.salts[n] = sweep[s].salts_and_deposits[n][1]
                             /\ sweep[s].salts_and_deposits[n][2]
                                  \in FetchedAddrs(sweep[s])
                   ELSE made.proxy \in FetchedAddrs(sweep[s])
         /\ Len(deposits') = Len(deposits)
         /\ user_nonces' = user_nonces
         /\ \A k \in 1..Len(deposits) :
              /\ [deposits'[k] EXCEPT !.status = deposits[k].status] = deposits[k]
              /\ deposits'[k] # deposits[k]
                   => deposits[k].deposit_address \in FetchedAddrs(sweep[s])]_vars

\* C30 witness: a sweep that fetched one of two deposits has routed it and
\* returned; the other deposit, failed when the sweep fetched, is as it was.
C30_Witness ==
  \E s \in Sweeps :
    /\ sweep[s].pc = "done"
    /\ sweep[s].response.routed = 1
    /\ Len(deposits) = 2
    /\ \E k \in 1..Len(deposits) :
         /\ deposits[k].deposit_address \notin FetchedAddrs(sweep[s])
         /\ deposits[k] = LedgerRow(k, "failed")
    /\ \E k \in 1..Len(deposits) :
         /\ deposits[k].deposit_address \in FetchedAddrs(sweep[s])
         /\ deposits[k].status = "routed"

\* C31: every summary a sweep returns has routed <= deployed <= funded <=
\* checked, as many entries in its transfer list as it counts routed, and a
\* deploy transaction id exactly when it counts a deposit deployed.
C31_SummaryOrdered ==
  \A s \in Sweeps :
    sweep[s].result = "Ok" =>
      /\ sweep[s].response.routed <= sweep[s].response.deployed
      /\ sweep[s].response.deployed <= sweep[s].response.funded
      /\ sweep[s].response.funded <= sweep[s].response.checked
      /\ sweep[s].response.routed = Len(sweep[s].response.route_tx_hashes)
      /\ (sweep[s].response.deploy_tx_hash # None) <=> (sweep[s].response.deployed > 0)

\* C31 witness: a sweep has returned a summary with two deposits checked,
\* funded and deployed under a transaction id, one of them routed after the
\* transfer of the other failed.
C31_Witness ==
  \E s \in Sweeps :
    /\ sweep[s].result = "Ok"
    /\ sweep[s].response.checked = 2
    /\ sweep[s].response.funded = 2
    /\ sweep[s].response.deployed = 2
    /\ sweep[s].response.routed = 1
    /\ sweep[s].response.deploy_tx_hash # None
    /\ ErrorsOf(s, "Transfer failed", sweep[s].salts_and_deposits[1][2]) # {}

\* The user strings of two requests decode to the same 20 bytes
SameIdentity(r1, r2) ==
  /\ req[r1].user_address_str # <<>> /\ req[r2].user_address_str # <<>>
  /\ parse_address(req[r1].user_address_str).val
       = parse_address(req[r2].user_address_str).val

\* C32 (as claimed): two create_deposit requests whose user strings decode
\* to the same 20 bytes use the same counter row, are never given the same
\* nonce, and, once both have returned with no I/O failure, have both
\* returned Ok.
C32_CounterKeyedByIdentity ==
  \A r1, r2 \in Reqs :
    (r1 # r2 /\ SameIdentity(r1, r2)) =>
      /\ req[r1].user_address_str = req[r2].user_address_str
      /\ (AllocationOk(r1) /\ AllocationOk(r2)) => req[r1].nonce # req[r2].nonce
      /\ (Returned(r1) /\ Returned(r2) /\ req[r1].result # ErrIo /\ req[r2].result # ErrIo)
           => ReturnedOk(r1) /\ ReturnedOk(r2)

\* C33: a call of get_and_increment_nonce whose read of the counter gave no
\* row, the error of the read swallowed, returns Ok only with nonce 0, for a
\* user who had no counter row and now has one holding 1, a nonce no other
\* call for that user string was given; in every other case it returns an
\* error and leaves the counters as they were; a counter row that exists is
\* never changed by such a call.
C33_SwallowedReadIsSafe ==
  [][\A r \in Reqs : \A key \in {req[r].user_address_str} :
       (req[r].pc \in {"write", "commit"} /\ req[r].row = None /\ req'[r] # req[r])
         => /\ HasRow(user_nonces, key)
                 => /\ user_nonces' = user_nonces
                    /\ ~AllocationOk(r)'
                    /\ Returned(r)' /\ req'[r].result \in {ErrUnique, ErrIo}
            /\ IF AllocationOk(r)'
               THEN /\ req'[r].nonce = Some(0)
                    /\ ~HasRow(user_nonces, key)
                    /\ user_nonces' =
                         [k \in DOMAIN user_nonces \cup {key} |->
                            IF k = key THEN 1 ELSE user_nonces[k]]
                    /\ \A r2 \in Reqs \ {r} :
                         (SameUser(r, r2) /\ AllocationOk(r2))
                           => req[r2].nonce # req'[r].nonce
               ELSE user_nonces' = user_nonces]_vars

\* C33 witness: a request was given nonce 0 and stored its deposit; a later
\* call for the same user string, its read swallowed, was refused, and the
\* counter still holds 1.
C33_Witness ==
  \E r1, r2 \in Reqs :
    /\ r1 # r2 /\ SameUser(r1, r2)
    /\ ReturnedOk(r1) /\ req[r1].nonce = Some(0)
    /\ req[r2].row = None /\ AllocationRefused(r2)
    /\ user_nonces[req[r2].user_address_str] = 1
    /\ Len(deposits) = 1
====
